---- MODULE Spec2Model ----
(***************************************************************************)
(* Model of the Al-Jarida archive crawlers:                                *)
(*   src/pdf_scraper.py  AljaridaPDFScraper  (daily PDF editions, walks    *)
(*                       backwards in time, checkpointed in the bucket)    *)
(*   src/scraper.py      AljaridaScraper     (article sheets, walks        *)
(*                       forwards in time)                                 *)
(* One behaviour is a sequence of executions of one of the two scripts     *)
(* against one bucket, or a sequence of direct calls of get_page_content,  *)
(* of the two sinks, or of scrape_day.                                     *)
(* The web site and the transport are the environment: what a fetch meets  *)
(* is chosen when the fetch is made.                                       *)
(*                                                                         *)
(* Text is modelled as sequences of character codes, so that formatting    *)
(* (strftime, f-strings) and parsing (strptime) are real conversions.      *)
(* print() is taken not to raise (stdout accepts every character).         *)
(* datetime values carry no time of day: the only comparisons the scripts  *)
(* make are against a midnight boundary (pdf_scraper.py:221) or start from *)
(* a midnight cursor (scraper.py:251), where the time of day of            *)
(* datetime.now() never changes the outcome.                               *)
(***************************************************************************)
EXTENDS Integers, Sequences, FiniteSets, TLC

\* ------------------------------------------------------------------ bounds

\* Number of calendar days the behaviours range over, from OldestDate to Today.
RangeLen == 4
\* Largest MAX_DAYS_PER_RUN value a run is started with.
MaxDays == 2
\* Largest max_retries value get_page_content is called with directly.
MaxRetries == 4
\* Largest number of archive pages a day's listing has.
MaxPages == 3

\* The element of a one-element set. Binding a computed value as the element
\* of a singleton set has it computed once.
Only(S) == CHOOSE x \in S : TRUE

\* ---------------------------------------------------------------- calendar

\* A date is <<year, month, day>>; NoDate is Python's None.
NoDate == <<>>

IsLeap(y) == (y % 4 = 0 /\ y % 100 # 0) \/ y % 400 = 0

DaysInMonth(y, m) ==
    IF m = 2 THEN (IF IsLeap(y) THEN 29 ELSE 28)
    ELSE IF m \in {4, 6, 9, 11} THEN 30 ELSE 31

\* datetime - timedelta(days=1)
MinusOneDay(d) ==
    IF d[3] > 1 THEN <<d[1], d[2], d[3] - 1>>
    ELSE IF d[2] > 1 THEN <<d[1], d[2] - 1, DaysInMonth(d[1], d[2] - 1)>>
    ELSE <<d[1] - 1, 12, 31>>

\* datetime + timedelta(days=1)
PlusOneDay(d) ==
    IF d[3] < DaysInMonth(d[1], d[2]) THEN <<d[1], d[2], d[3] + 1>>
    ELSE IF d[2] < 12 THEN <<d[1], d[2] + 1, 1>>
    ELSE <<d[1] + 1, 1, 1>>

\* datetime comparison  a < b
DateLT(a, b) ==
    \/ a[1] < b[1]
    \/ a[1] = b[1] /\ a[2] < b[2]
    \/ a[1] = b[1] /\ a[2] = b[2] /\ a[3] < b[3]

DateGE(a, b) == ~DateLT(a, b)
DateLE(a, b) == ~DateLT(b, a)

\* datetime(2007, 6, 2): the earliest edition, the PDF crawl's default
\* boundary and the article crawl's default start.
EarliestDate == <<2007, 6, 2>>

\* The oldest date a run is given or reaches by an explicit boundary.
OldestDate == <<2007, 5, 31>>

RECURSIVE DaysFrom(_, _)
DaysFrom(d, n) == IF n = 0 THEN <<>> ELSE <<d>> \o DaysFrom(PlusOneDay(d), n - 1)

\* d - timedelta(days=n)
RECURSIVE DaysBefore(_, _)
DaysBefore(d, n) == IF n = 0 THEN d ELSE DaysBefore(MinusOneDay(d), n - 1)

\* The dates of the behaviour, oldest first.
DateSeq == DaysFrom(OldestDate, RangeLen)
Dates == {DateSeq[i] : i \in 1..RangeLen}

\* datetime.now() of every execution of the behaviour.
Today == DateSeq[RangeLen]

\* -------------------------------------------------------------------- text

Dash == 45
Digit(n) == 48 + n
IsDigit(c) == c \in 48..57
Val(c) == c - 48

\* f"{n}": no padding.
Pad2Bare(n) == IF n < 10 THEN <<Digit(n)>> ELSE <<Digit(n \div 10), Digit(n % 10)>>

\* f"{n:02d}" for 0 <= n <= 99
Pad2(n) == <<Digit(n \div 10), Digit(n % 10)>>

\* f"{year}" and '%Y' for 1000 <= year <= 9999
Str4(y) == <<Digit(y \div 1000), Digit((y \div 100) % 10),
             Digit((y \div 10) % 10), Digit(y % 10)>>

\* date.strftime('%Y-%m-%d')
Strftime(d) == Str4(d[1]) \o <<Dash>> \o Pad2(d[2]) \o <<Dash>> \o Pad2(d[3])

\* datetime.strptime(s, '%Y-%m-%d'): the date, or NoDate where it raises
\* ValueError. The texts parsed in the behaviours are zero-padded dates or
\* hold no date at all.
Strptime(s) ==
    IF /\ Len(s) = 10
       /\ s[5] = Dash /\ s[8] = Dash
       /\ \A i \in {1, 2, 3, 4, 6, 7, 9, 10} : IsDigit(s[i])
    THEN LET y == 1000 * Val(s[1]) + 100 * Val(s[2]) + 10 * Val(s[3]) + Val(s[4])
             m == 10 * Val(s[6]) + Val(s[7])
             d == 10 * Val(s[9]) + Val(s[10])
         IN  IF y >= 1 /\ m \in 1..12 /\ d >= 1 /\ d <= DaysInMonth(y, m)
             THEN <<y, m, d>> ELSE NoDate
    ELSE NoDate

\* '\n' and ' '
Newline == 10
Space == 32

\* str.strip() on the texts of the model, whose whitespace is space and newline
RECURSIVE LStrip(_)
LStrip(text) ==
    IF text # <<>> /\ text[1] \in {Newline, Space} THEN LStrip(Tail(text)) ELSE text

RECURSIVE RStrip(_)
RStrip(text) ==
    IF text # <<>> /\ text[Len(text)] \in {Newline, Space}
    THEN RStrip(SubSeq(text, 1, Len(text) - 1)) ELSE text

Strip(text) == RStrip(LStrip(text))

\* cache_key = f"{year}-{month:02d}"
CacheKey(year, month) == Str4(year) \o <<Dash>> \o Pad2(month)

\* ----------------------------------------------------------------- the web

\* The last path segment of a URL, in three parts.
\*   a file link      issue-20070603.pdf
\*   a viewer link    view                (no .pdf file name)
FileName(prefix, digits, suffix) == [prefix |-> prefix, digits |-> digits, suffix |-> suffix]

\* An href of a preview: "file" and "viewer" join to a URL; "malformed" is an
\* href urljoin rejects with ValueError (e.g. "http://[").
Href(kind, d) == [kind |-> kind, date |-> d]

\* urljoin(self.base_url, href), for an href urljoin accepts.
UrlJoin(href) ==
    [host |-> "www.aljarida.com",
     name |-> IF href.kind = "file"
              THEN FileName("issue-", Str4(href.date[1]) \o Pad2(href.date[2]) \o Pad2(href.date[3]), ".pdf")
              ELSE FileName("view", <<>>, "")]

\* One <div class="pdf-preview">: the text of its date div (<<>> when the div
\* is missing or holds no date) and its link (kind "nolink" when missing).
Preview(date_text, href) == [date_text |-> date_text, href |-> href]

\* How the site links an edition once it shows it: the link of an edition
\* does not change, and the site has editions of both kinds.
LinkKind(d) == IF d[3] % 2 = 1 THEN "file" ELSE "viewer"

\* The dates of the behaviour that fall in a month, oldest first.
InMonth(d, year, month) == d[1] = year /\ d[2] = month
MonthDates(year, month) ==
    LET here(d) == InMonth(d, year, month) IN SelectSeq(DateSeq, here)

\* The months of the behaviour, as <<year, month>>.
Months == {<<d[1], d[2]>> : d \in Dates}

\* The listing pages the site may hold for a month. A page with a widget
\* always carries one preview without a link and one without a date; a
\* "malformed" page carries one more whose href urljoin rejects.
MonthPages(year, month) ==
    LET ds == MonthDates(year, month)
        junk == <<Preview(Strftime(<<year, month, 1>>), Href("nolink", NoDate)),
                  Preview(<<>>, Href("file", <<year, month, 1>>))>>
        shown(pv) == pv.href.kind # "none"
        entries(f) ==
            SelectSeq([i \in 1..Len(ds) |->
                          Preview(Strftime(ds[i]),
                                  Href(IF f[i] THEN LinkKind(ds[i]) ELSE "none", ds[i]))],
                      shown)
    IN  {[kind |-> "page", widget |-> FALSE, previews |-> <<>>]}
        \cup {[kind |-> "page", widget |-> TRUE,
               previews |-> junk \o entries(f) \o tail] :
                 f \in [1..Len(ds) -> BOOLEAN],
                 tail \in {<<>>, <<Preview(Strftime(<<year, month, 1>>), Href("malformed", NoDate))>>}}

\* ------------------------------------------------------- get_page_content

\* html values: None, or the text of a response.
NoneHtml == [kind |-> "None"]
BlankHtml == [kind |-> "blank"]

\* `not html`
Falsy(html) == html.kind \in {"None", "blank"}

\* The outcomes of one session.get(url) + raise_for_status().
TransportOutcomes == {"error", "blank", "page"}

\* response.text of a successful attempt
ResponseText(outcome, page) == IF outcome = "blank" THEN BlankHtml ELSE page

\* A retry loop whose delay grows by one second per failed attempt.
RECURSIVE RetryLoopLinear(_, _, _, _, _)
RetryLoopLinear(outs, page, max_retries, attempt, sleeps) ==
    IF attempt >= max_retries
    THEN [html |-> NoneHtml, attempts |-> attempt, sleeps |-> sleeps]
    ELSE IF outs[attempt + 1] # "error"
    THEN [html |-> ResponseText(outs[attempt + 1], page),
          attempts |-> attempt + 1, sleeps |-> sleeps]
    ELSE IF attempt < max_retries - 1
    THEN RetryLoopLinear(outs, page, max_retries, attempt + 1, Append(sleeps, attempt + 1))
    ELSE [html |-> NoneHtml, attempts |-> attempt + 1, sleeps |-> sleeps]

\* The retry loop of get_page_content: the attempts are numbered from 0,
\* outs[attempt + 1] is what the transport does at that attempt, page is what
\* the site holds for the URL. Yields the returned html, the number of
\* transport attempts made and the sleeps taken, in order.
RECURSIVE RetryLoop(_, _, _, _, _)
RetryLoop(outs, page, max_retries, attempt, sleeps) ==
    IF attempt >= max_retries
    THEN [html |-> NoneHtml, attempts |-> attempt, sleeps |-> sleeps]
    ELSE IF outs[attempt + 1] # "error"
    THEN [html |-> ResponseText(outs[attempt + 1], page),
          attempts |-> attempt + 1, sleeps |-> sleeps]
    ELSE IF attempt < max_retries - 1
    THEN RetryLoop(outs, page, max_retries, attempt + 1, Append(sleeps, 2 ^ attempt))
    ELSE [html |-> NoneHtml, attempts |-> attempt + 1, sleeps |-> sleeps]

\* A get_page_content that gives up after the first failed attempt.
GetPageContentOnce(outs, page, max_retries) ==
    RetryLoop(outs, page, IF max_retries > 1 THEN 1 ELSE max_retries, 0, <<>>)

GetPageContent(outs, page, max_retries) == RetryLoop(outs, page, max_retries, 0, <<>>)

\* max_retries=3, the default every call in the two scripts uses.
DefaultMaxRetries == 3

\* ------------------------------------------------- scrape_pdf_month_index

\* The empty dict {}.
EmptyIndex == <<>>

\* re.search(r"(\d{4}-\d{2}-\d{2})", date_text): the date texts of the model
\* are either empty or exactly one date.
DateMatch(date_text) ==
    /\ Len(date_text) = 10
    /\ date_text[5] = Dash /\ date_text[8] = Dash
    /\ \A i \in {1, 2, 3, 4, 6, 7, 9, 10} : IsDigit(date_text[i])

\* date_to_pdf[date_str] = pdf_url
DictSet(dict, key, value) == (key :> value) @@ dict

\* The loop over the previews, from preview i on. raised is TRUE when urljoin
\* raised ValueError, which leaves the function without a return value.
RECURSIVE PreviewLoop(_, _, _)
PreviewLoop(previews, i, date_to_pdf) ==
    IF i > Len(previews) THEN [raised |-> FALSE, date_to_pdf |-> date_to_pdf]
    ELSE LET pv == previews[i] IN
         IF pv.date_text = <<>> \/ pv.href.kind = "nolink"
         THEN PreviewLoop(previews, i + 1, date_to_pdf)
         ELSE IF ~DateMatch(pv.date_text)
         THEN PreviewLoop(previews, i + 1, date_to_pdf)
         ELSE IF pv.href.kind = "malformed"
         THEN [raised |-> TRUE, date_to_pdf |-> date_to_pdf]
         ELSE PreviewLoop(previews, i + 1,
                          DictSet(date_to_pdf, pv.date_text, UrlJoin(pv.href)))

\* An index builder that caches nothing when the listing could not be had.
IndexFromHtmlUncached(cache, cache_key, html) ==
    IF Falsy(html) \/ ~html.widget
    THEN [cache |-> cache, index |-> EmptyIndex, raised |-> FALSE, fetches |-> 1]
    ELSE Only({IF r.raised
               THEN [cache |-> cache, index |-> EmptyIndex, raised |-> TRUE, fetches |-> 1]
               ELSE [cache |-> DictSet(cache, cache_key, r.date_to_pdf),
                     index |-> r.date_to_pdf, raised |-> FALSE, fetches |-> 1] :
               r \in {PreviewLoop(html.previews, 1, EmptyIndex)}})

\* Lines 79-116 of scrape_pdf_month_index, from the html that
\* get_page_content returned.
IndexFromHtml(cache, cache_key, html) ==
    IF Falsy(html)
    THEN [cache |-> DictSet(cache, cache_key, EmptyIndex),
          index |-> EmptyIndex, raised |-> FALSE, fetches |-> 1]
    ELSE IF ~html.widget
    THEN [cache |-> DictSet(cache, cache_key, EmptyIndex),
          index |-> EmptyIndex, raised |-> FALSE, fetches |-> 1]
    ELSE Only({IF r.raised
               THEN [cache |-> cache, index |-> EmptyIndex, raised |-> TRUE, fetches |-> 1]
               ELSE [cache |-> DictSet(cache, cache_key, r.date_to_pdf),
                     index |-> r.date_to_pdf, raised |-> FALSE, fetches |-> 1] :
               r \in {PreviewLoop(html.previews, 1, EmptyIndex)}})

\* scrape_pdf_month_index(year, month) on the cache `cache`, where the
\* transport does outs and the site holds page for the month's listing.
\* Yields the cache afterwards, the returned index, whether an exception left
\* the function, and the number of get_page_content calls made.
ScrapePdfMonthIndex(cache, year, month, outs, page) ==
    Only({IF cache_key \in DOMAIN cache
          THEN [cache |-> cache, index |-> cache[cache_key], raised |-> FALSE, fetches |-> 0]
          ELSE Only({IndexFromHtml(cache, cache_key, html) :
                     html \in {GetPageContent(outs, page, DefaultMaxRetries).html}}) :
          cache_key \in {CacheKey(year, month)}})

\* ------------------------------------------------------- upload_pdf_to_s3

\* filename.endswith('.pdf')
EndsWithPdf(filename) == filename.suffix \in {".pdf", "-1.pdf"}

\* `not filename`
EmptyName(filename) ==
    filename.prefix = "" /\ filename.digits = <<>> /\ filename.suffix = ""

\* os.path.basename(urlparse(pdf_url).path), replaced by
\* f"aljarida-{year}{month:02d}{day:02d}-1.pdf" when it names no PDF.
PdfFileName(pdf_url, year, month, day) ==
    IF EmptyName(pdf_url.name) \/ ~EndsWithPdf(pdf_url.name)
    THEN FileName("aljarida-", Str4(year) \o Pad2(month) \o Pad2(day), "-1.pdf")
    ELSE pdf_url.name

\* f"aljarida/year={year}/month={month:02d}/day={day:02d}/magazinepdf/{filename}"
PdfKey(pdf_url, year, month, day) ==
    [collection |-> "aljarida", year |-> Str4(year), month |-> Pad2(month),
     day |-> Pad2(day), artifact |-> <<"magazinepdf", PdfFileName(pdf_url, year, month, day)>>]

\* What the three calls of one upload_pdf_to_s3 meet: whether the transport
\* of head_object, of the download and of upload_fileobj works.
SinkEnvs == [head : BOOLEAN, get : BOOLEAN, put : BOOLEAN]

\* s3_client.head_object: "found", or an exception ("missing": the 404
\* ClientError of a key that is not there; "error": a transport error).
HeadObject(objects, key, transport_ok) ==
    IF ~transport_ok THEN "error"
    ELSE IF key \in DOMAIN objects THEN "found" ELSE "missing"

\* upload_pdf_to_s3(pdf_url, year, month, day) on the bucket objects.
\* Yields the returned value, the bucket afterwards, and what was called:
\* head ("none" when head_object was not called), downloaded (session.get
\* of the PDF was issued), put (upload_fileobj was issued).
UploadPdfToS3(client, objects, pdf_url, year, month, day, env) ==
    IF ~client
    THEN [ok |-> FALSE, objects |-> objects, head |-> "none",
          downloaded |-> FALSE, put |-> FALSE]
    ELSE Only({Only({
             IF head = "found"
             THEN [ok |-> TRUE, objects |-> objects, head |-> head,
                   downloaded |-> FALSE, put |-> FALSE]
             ELSE IF ~env.get
             THEN [ok |-> FALSE, objects |-> objects, head |-> head,
                   downloaded |-> TRUE, put |-> FALSE]
             ELSE IF ~env.put
             THEN [ok |-> FALSE, objects |-> objects, head |-> head,
                   downloaded |-> TRUE, put |-> TRUE]
             ELSE [ok |-> TRUE, objects |-> DictSet(objects, s3_key, pdf_url),
                   head |-> head, downloaded |-> TRUE, put |-> TRUE] :
             head \in {HeadObject(objects, s3_key, env.head)}}) :
         s3_key \in {PdfKey(pdf_url, year, month, day)}})

\* ---------------------------------------------------------- the checkpoint

\* The checkpoint object is absent from the bucket.
NoBlob == <<>>

\* A get_last_checkpoint_date that never finds a checkpoint.
GetLastCheckpointDateNever(client, blob, transport_ok) == NoDate

\* get_last_checkpoint_date(): the stored date, or NoDate (None) when there
\* is no client, get_object raises (no such key, transport error) or the
\* text is no date.
GetLastCheckpointDate(client, blob, transport_ok) ==
    IF ~client THEN NoDate
    ELSE IF ~transport_ok \/ blob = NoBlob THEN NoDate
    ELSE Strptime(Strip(blob))

\* A set_last_checkpoint_date that stores the day before date_value, the
\* cursor's next position.
SetLastCheckpointDateNext(client, blob, date_value, transport_ok) ==
    IF ~client THEN blob
    ELSE IF transport_ok THEN Strftime(MinusOneDay(date_value)) ELSE blob

\* A set_last_checkpoint_date whose rejected write loses the stored
\* checkpoint.
SetLastCheckpointDateClobber(client, blob, date_value, transport_ok) ==
    IF ~client THEN blob
    ELSE IF transport_ok THEN Strftime(date_value) ELSE NoBlob

\* set_last_checkpoint_date(date_value): the checkpoint object afterwards.
\* A put_object that raises is caught and leaves the object as it was.
SetLastCheckpointDate(client, blob, date_value, transport_ok) ==
    IF ~client THEN blob
    ELSE IF transport_ok THEN Strftime(date_value) ELSE blob

\* ------------------------------------------- scraper.py: the archive pages

\* A fetch of one URL: what the transport does over the attempts (outs) and
\* what the site holds for the URL (page).
Fetch(outs, page) == [outs |-> outs, page |-> page]

\* A URL the site does not serve: every attempt raises.
Unreachable == Fetch([i \in 1..DefaultMaxRetries |-> "error"], NoneHtml)

\* text.isdigit()
IsDigitText(text) == text # <<>> /\ \A i \in 1..Len(text) : IsDigit(text[i])

\* int(text) of a text of digits
RECURSIVE IntOf(_)
IntOf(text) ==
    IF text = <<>> THEN 0
    ELSE 10 * IntOf(SubSeq(text, 1, Len(text) - 1)) + Val(text[Len(text)])

\* One <li class="pager-nav">: whether it holds a link, and the link's text.
PagerItem(link, text) == [link |-> link, text |-> text]

\* One <tr> of the archive table: the number of its <td> cells, the text of
\* the first, whether the second holds a link, and the link's title and href.
Row(tds, category, link, title, url) ==
    [tds |-> tds, category |-> category, link |-> link, title |-> title, url |-> url]

\* An archive page: pagination is whether it has <nav class="pagination">,
\* pager the <li> items of it, widget whether it has the archive widget,
\* table whether the widget holds a table, trs the table's rows with the
\* header row first.
ArchivePage(pagination, pager, widget, table, trs) ==
    [kind |-> "page", pagination |-> pagination, pager |-> pager,
     widget |-> widget, table |-> table, trs |-> trs]

\* get_max_pages(soup)
GetMaxPages(soup) ==
    IF ~soup.pagination THEN 1
    ELSE LET page_numbers ==
                 {IntOf(soup.pager[i].text) :
                     i \in {j \in 1..Len(soup.pager) :
                               soup.pager[j].link /\ IsDigitText(soup.pager[j].text)}}
         IN  IF page_numbers = {} THEN 1
             ELSE CHOOSE n \in page_numbers : \A k \in page_numbers : k <= n

\* rows = table.find_all('tr')[1:]
SkipHeader(trs) == IF trs = <<>> THEN <<>> ELSE Tail(trs)

\* The loop over the rows of the table: the articles appended, in order.
RowArticles(rows) ==
    LET kept(row) == row.tds >= 2 /\ row.link
        found == SelectSeq(rows, kept)
    IN  [i \in 1..Len(found) |->
            [category |-> found[i].category, title |-> found[i].title, url |-> found[i].url]]

\* scrape_archive_page(year, month, day, page_num), where the fetch of the
\* page's URL meets `fetch`: the articles and max_pages it returns.
ScrapeArchivePage(fetch, page_num) ==
    Only({IF Falsy(html)
          THEN [articles |-> <<>>, max_pages |-> 0]
          ELSE Only({IF ~html.widget
                     THEN [articles |-> <<>>, max_pages |-> max_pages]
                     ELSE IF ~html.table
                     THEN [articles |-> <<>>, max_pages |-> max_pages]
                     ELSE [articles |-> RowArticles(SkipHeader(html.trs)),
                           max_pages |-> max_pages] :
                     max_pages \in {IF page_num = 1 THEN GetMaxPages(html) ELSE 0}}) :
          html \in {GetPageContent(fetch.outs, fetch.page, DefaultMaxRetries).html}})

\* ------------------------------------------- scraper.py: the article pages

\* One string of the articleContent div: its text, and whether it sits in an
\* adInWidget div or a script (those are decomposed before the text is read).
Node(text, removed) == [text |-> text, removed |-> removed]

\* article_content.get_text(separator='\n', strip=True): the strings that
\* are left, each stripped, the empty ones dropped, joined by newlines.
RECURSIVE JoinLines(_)
JoinLines(texts) ==
    IF texts = <<>> THEN <<>>
    ELSE IF Len(texts) = 1 THEN texts[1]
    ELSE texts[1] \o <<Newline>> \o JoinLines(Tail(texts))

GetText(nodes) ==
    LET left(node) == ~node.removed
        kept == SelectSeq(nodes, left)
        stripped == [i \in 1..Len(kept) |-> Strip(kept[i].text)]
        nonempty(text) == text # <<>>
    IN  JoinLines(SelectSeq(stripped, nonempty))

\* re.sub(r'\n{3,}', '\n\n', content): run is the number of newlines that
\* immediately precede the rest of the text.
RECURSIVE Collapse(_, _)
Collapse(text, run) ==
    IF text = <<>> THEN <<>>
    ELSE IF text[1] = Newline
    THEN (IF run >= 2 THEN <<>> ELSE <<Newline>>) \o Collapse(Tail(text), run + 1)
    ELSE <<text[1]>> \o Collapse(Tail(text), 0)

\* An article page: whether it has <div class="articleContent">, and the
\* strings in it.
ArticlePage(article_content, nodes) ==
    [kind |-> "page", article_content |-> article_content, nodes |-> nodes]

\* scrape_article_content(article_url), where the fetch meets `fetch`.
ScrapeArticleContent(fetch) ==
    Only({IF Falsy(html) THEN <<>>
          ELSE IF ~html.article_content THEN <<>>
          ELSE Strip(Collapse(GetText(html.nodes), 0)) :
          html \in {GetPageContent(fetch.outs, fetch.page, DefaultMaxRetries).html}})

\* ------------------------------------------------- scraper.py: scrape_day

\* What the site serves for one day: listing[n] is what the fetch of archive
\* page n meets, articles[url] what the fetch of an article URL meets.
DaySite(listing, articles) == [listing |-> listing, articles |-> articles]

ListingFetch(site, page_num) ==
    IF page_num \in 1..Len(site.listing) THEN site.listing[page_num] ELSE Unreachable

ArticleFetch(site, url) ==
    IF url \in DOMAIN site.articles THEN site.articles[url] ELSE Unreachable

\* for page_num in range(2, max_pages + 1): all_articles.extend(page_articles)
RECURSIVE RemainingPages(_, _, _)
RemainingPages(site, page_num, max_pages) ==
    IF page_num > max_pages THEN <<>>
    ELSE ScrapeArchivePage(ListingFetch(site, page_num), page_num).articles
         \o RemainingPages(site, page_num + 1, max_pages)

\* A scrape_day that leaves out the articles whose content it could not get.
ScrapeDayDropFailed(site) ==
    Only({Only({[articles_data |->
                    SelectSeq([i \in 1..Len(all_articles) |->
                                  [section |-> all_articles[i].category,
                                   title |-> all_articles[i].title,
                                   content |-> ScrapeArticleContent(
                                                  ArticleFetch(site, all_articles[i].url))]],
                              LAMBDA row : row.content # <<>>),
                 pages |-> <<1>> \o (IF first.max_pages > 1
                                     THEN [i \in 1..(first.max_pages - 1) |-> i + 1]
                                     ELSE <<>>),
                 urls |-> [i \in 1..Len(all_articles) |-> all_articles[i].url]] :
            all_articles \in {first.articles \o
                              (IF first.max_pages > 1
                               THEN RemainingPages(site, 2, first.max_pages)
                               ELSE <<>>)}}) :
          first \in {ScrapeArchivePage(ListingFetch(site, 1), 1)}})

\* A scrape_day that takes the page count again from the second page.
ScrapeDayRederive(site) ==
    Only({Only({Only({[articles_data |->
                    [i \in 1..Len(all_articles) |->
                        [section |-> all_articles[i].category,
                         title |-> all_articles[i].title,
                         content |-> ScrapeArticleContent(ArticleFetch(site, all_articles[i].url))]],
                 pages |-> <<1>> \o (IF max_pages > 1
                                     THEN [i \in 1..(max_pages - 1) |-> i + 1]
                                     ELSE <<>>),
                 urls |-> [i \in 1..Len(all_articles) |-> all_articles[i].url]] :
            all_articles \in {first.articles \o
                              (IF max_pages > 1
                               THEN RemainingPages(site, 2, max_pages)
                               ELSE <<>>)}}) :
          max_pages \in {IF first.max_pages > 1
                         THEN Only({IF Falsy(html) \/ GetMaxPages(html) < first.max_pages
                                    THEN first.max_pages ELSE GetMaxPages(html) :
                                    html \in {GetPageContent(ListingFetch(site, 2).outs,
                                                             ListingFetch(site, 2).page,
                                                             DefaultMaxRetries).html}})
                         ELSE first.max_pages}}) :
          first \in {ScrapeArchivePage(ListingFetch(site, 1), 1)}})

\* scrape_day(year, month, day) against `site`: articles_data, the archive
\* pages requested and the article URLs requested, in order. The keys of an
\* articles_data row are the sheet's three column titles (section, title,
\* content).
ScrapeDay(site) ==
    Only({Only({[articles_data |->
                    [i \in 1..Len(all_articles) |->
                        [section |-> all_articles[i].category,
                         title |-> all_articles[i].title,
                         content |-> ScrapeArticleContent(ArticleFetch(site, all_articles[i].url))]],
                 pages |-> <<1>> \o (IF first.max_pages > 1
                                     THEN [i \in 1..(first.max_pages - 1) |-> i + 1]
                                     ELSE <<>>),
                 urls |-> [i \in 1..Len(all_articles) |-> all_articles[i].url]] :
            all_articles \in {first.articles \o
                              (IF first.max_pages > 1
                               THEN RemainingPages(site, 2, first.max_pages)
                               ELSE <<>>)}}) :
          first \in {ScrapeArchivePage(ListingFetch(site, 1), 1)}})

\* ------------------------------------------------ scraper.py: save_to_s3

\* pd.DataFrame(articles_data) written by df.to_excel(writer, index=False,
\* sheet_name='Articles'): one header row and one row per article.
ToExcel(articles_data) ==
    [sheet_name |-> "Articles",
     header |-> <<"section", "title", "content">>,
     rows |-> [i \in 1..Len(articles_data) |->
                  <<articles_data[i].section, articles_data[i].title, articles_data[i].content>>]]

\* The characters openpyxl refuses in a cell (IllegalCharacterError).
IllegalCharacter(c) == c \in (0..8) \cup {11, 12} \cup (14..31)

IllegalText(text) == \E i \in 1..Len(text) : IllegalCharacter(text[i])

\* df.to_excel raises
ToExcelRaises(articles_data) ==
    \E i \in 1..Len(articles_data) :
        \/ IllegalText(articles_data[i].section)
        \/ IllegalText(articles_data[i].title)
        \/ IllegalText(articles_data[i].content)

\* f"aljarida/year={year}/month={month:02d}/day={day:02d}/data.xlsx"
SheetKey(year, month, day) ==
    [collection |-> "aljarida", year |-> Str4(year), month |-> Pad2(month),
     day |-> Pad2(day), artifact |-> <<"data.xlsx">>]

\* save_to_s3(df, year, month, day) on the bucket objects; put_ok is whether
\* the transport of put_object works. Yields the returned value (ok), whether
\* an exception left the function instead (raised), the bucket afterwards,
\* and what was called, as for upload_pdf_to_s3.
SaveToS3(client, objects, articles_data, year, month, day, put_ok) ==
    IF ~client
    THEN [ok |-> FALSE, raised |-> FALSE, objects |-> objects, head |-> "none",
          downloaded |-> FALSE, put |-> FALSE]
    ELSE IF ToExcelRaises(articles_data)
    THEN [ok |-> FALSE, raised |-> TRUE, objects |-> objects, head |-> "none",
          downloaded |-> FALSE, put |-> FALSE]
    ELSE IF ~put_ok
    THEN [ok |-> FALSE, raised |-> FALSE, objects |-> objects, head |-> "none",
          downloaded |-> FALSE, put |-> TRUE]
    ELSE [ok |-> TRUE, raised |-> FALSE,
          objects |-> DictSet(objects, SheetKey(year, month, day), ToExcel(articles_data)),
          head |-> "none", downloaded |-> FALSE, put |-> TRUE]

\* ------------------------------------------------------------------- state

VARIABLES
    script,             \* what the behaviour runs: "pdf", "articles", or the direct
                        \* calls "fetch" (get_page_content), "sink" (the two sinks)
                        \* and "day" (scrape_day)
    pc,                 \* "main", "loop", "body", "halted"
    s3_objects,         \* the bucket: key -> content, without the checkpoint object
    s3_checkpoint,      \* the text of aljarida/_state/pdf_last_success_date.txt, or NoBlob
    month_cache,        \* self.month_cache
    current_date, end_date, max_days_per_run,
    total_uploaded, total_skipped, total_failed,
    started,            \* how this execution began
    last_success,       \* the last date of this execution whose sink call returned True
    write_failed,       \* a checkpoint put_object of this execution raised
    fetches,            \* cache_key -> get_page_content calls for that listing in this execution
    last,               \* what the last loop iteration did
    overwrote,          \* the last loop iteration issued a put for a key the bucket held
    total_articles, total_days,     \* the tallies of AljaridaScraper.scrape_and_upload
    call                \* the last direct call, its arguments and what it yielded

vars == <<script, pc, s3_objects, s3_checkpoint, month_cache,
          current_date, end_date, max_days_per_run,
          total_uploaded, total_skipped, total_failed, started, last_success, write_failed, fetches, last,
          overwrote, total_articles, total_days, call>>

\* The script exits before constructing the scraper unless the credentials
\* and the bucket name are set, and the constructor raises unless the bucket
\* answers: scrape_and_upload always runs with a client.
Client == TRUE

\* A text that is no date.
Garbage == <<110, 111>>

\* sys.argv[1:]: nothing, a start date, or a start and an end date.
ArgTexts == {Strftime(d) : d \in Dates} \cup {Garbage}
Argvs == {<<>>} \cup {<<a>> : a \in ArgTexts} \cup {<<a, b>> : a \in ArgTexts, b \in ArgTexts}

NoStart == [resumable |-> FALSE, checkpoint_date |-> NoDate, start_date |-> NoDate]

NoLast == [date |-> NoDate, outcome |-> "none", sink |-> "none",
           checkpoint_call |-> FALSE, checkpoint_ok |-> FALSE]

NoCall == [kind |-> "none"]

\* The state after construction of either scraper, against an empty bucket.
Constructed ==
    /\ pc = "main"
    /\ s3_objects = <<>>
    /\ s3_checkpoint = NoBlob
    /\ month_cache = <<>>
    /\ current_date = NoDate
    /\ end_date = NoDate
    /\ max_days_per_run = 0
    /\ total_uploaded = 0
    /\ total_skipped = 0
    /\ total_failed = 0
    /\ started = NoStart
    /\ last_success = NoDate
    /\ write_failed = FALSE
    /\ fetches = <<>>
    /\ last = NoLast
    /\ overwrote = FALSE
    /\ total_articles = 0
    /\ total_days = 0
    /\ call = NoCall

Init == script \in {"pdf", "articles"} /\ Constructed

\* ------------------------------------------------- pdf_scraper.py __main__

\* A START_DATE that resumes at the checkpoint date itself.
StartDateSame(argv, use_checkpoint, checkpoint_date) ==
    LET given == IF Len(argv) >= 1 /\ Strptime(argv[1]) # NoDate
                 THEN Strptime(argv[1]) ELSE Today
    IN  IF use_checkpoint /\ Len(argv) < 1 /\ checkpoint_date # NoDate
        THEN checkpoint_date
        ELSE given

\* START_DATE of the script: sys.argv[1] when it parses, else
\* datetime.now(); replaced by the day before the checkpoint when resumption
\* is on, no argument is given and a checkpoint is read.
StartDate(argv, use_checkpoint, checkpoint_date) ==
    LET given == IF Len(argv) >= 1 /\ Strptime(argv[1]) # NoDate
                 THEN Strptime(argv[1]) ELSE Today
    IN  IF use_checkpoint /\ Len(argv) < 1 /\ checkpoint_date # NoDate
        THEN MinusOneDay(checkpoint_date)
        ELSE given

\* START_DATE of a run started with resumption on and no argument, when the
\* checkpoint object is blob and get_object works.
ResumePosition(blob) ==
    StartDate(<<>>, TRUE, GetLastCheckpointDate(Client, blob, TRUE))

\* END_DATE of the script: sys.argv[2] when it parses, else datetime(2007, 6, 2).
EndDate(argv) ==
    IF Len(argv) >= 2 /\ Strptime(argv[2]) # NoDate THEN Strptime(argv[2]) ELSE EarliestDate

\* The script up to the call of scrape_and_upload: the arguments of the call
\* and how they came about. read_ok is whether get_object works.
MainSetup(argv, use_checkpoint, M, read_ok) ==
    Only({Only({[start_date |-> StartDate(argv, use_checkpoint, checkpoint_date),
                 end_date |-> EndDate(argv),
                 max_days_per_run |-> M,
                 started |-> [resumable |-> resumable, checkpoint_date |-> checkpoint_date,
                              start_date |-> StartDate(argv, use_checkpoint, checkpoint_date)]] :
        checkpoint_date \in {IF resumable
                             THEN GetLastCheckpointDate(Client, s3_checkpoint, read_ok)
                             ELSE NoDate}}) :
        resumable \in {use_checkpoint /\ Len(argv) < 1}})

PdfMain ==
    /\ script = "pdf" /\ pc = "main"
    /\ \E m \in {MainSetup(argv, use_checkpoint, M, read_ok) :
                    argv \in Argvs, use_checkpoint \in BOOLEAN,
                    M \in 0..MaxDays, read_ok \in BOOLEAN} :
         /\ current_date' = m.start_date
         /\ end_date' = m.end_date
         /\ max_days_per_run' = m.max_days_per_run
         /\ started' = m.started
    /\ month_cache' = <<>>
    /\ total_uploaded' = 0 /\ total_skipped' = 0 /\ total_failed' = 0
    /\ last_success' = NoDate /\ write_failed' = FALSE
    /\ fetches' = <<>> /\ last' = NoLast /\ overwrote' = FALSE
    /\ pc' = "loop"
    /\ UNCHANGED <<script, s3_objects, s3_checkpoint, total_articles, total_days, call>>

\* ---------------------------------- AljaridaPDFScraper.scrape_and_upload

\* while current_date >= end_date
WhileTest(cursor, boundary) == DateGE(cursor, boundary)

\* A budget test that lets one more date through.
BudgetBreakLate(uploaded, skipped, failed, M, expired) ==
    uploaded + skipped + failed > M \/ expired

\* The two limits read at the top of an iteration: TRUE when the loop breaks.
BudgetBreak(uploaded, skipped, failed, M, expired) ==
    uploaded + skipped + failed >= M \/ expired

\* The top of one iteration: leave the loop and print the tallies, or go on
\* to process current_date. expired is what the clock shows when it is read:
\* elapsed_minutes >= max_runtime_minutes.
PdfLoopTest ==
    /\ script = "pdf" /\ pc = "loop"
    /\ \E expired \in BOOLEAN :
         pc' = IF /\ WhileTest(current_date, end_date)
                  /\ ~BudgetBreak(total_uploaded, total_skipped, total_failed,
                                  max_days_per_run, expired)
               THEN "body" ELSE "halted"
    /\ UNCHANGED <<script, s3_objects, s3_checkpoint, month_cache,
                   current_date, end_date, max_days_per_run,
                   total_uploaded, total_skipped, total_failed, started, last_success,
                   write_failed, fetches, last, overwrote, total_articles, total_days, call>>

\* pdf_index.get(date_str): the URL, or None
DictHas(dict, key) == key \in DOMAIN dict

\* The sink was not called.
NoUpload(objects) ==
    [ok |-> FALSE, objects |-> objects, head |-> "none", downloaded |-> FALSE, put |-> FALSE]

\* The sink was called for a key that the bucket `objects` held, and issued
\* a put.
Overwrites(objects, key, up) == up.put /\ key \in DOMAIN objects

\* if pdf_url: ... for the index ix that scrape_pdf_month_index yielded
Located(ix, cursor) == ~ix.raised /\ DictHas(ix.index, Strftime(cursor))

\* Which of the four ways an iteration ends: the three counters, and the
\* except branch.
Outcome(ix, located, up) ==
    IF ix.raised THEN "error"
    ELSE IF ~located THEN "skipped"
    ELSE IF up.ok THEN "uploaded" ELSE "failed"

\* An iteration that also records the checkpoint for a date it skipped.
SettleEager(cursor, ix, located, up, outcome, write_ok) ==
    [cache |-> ix.cache,
     objects |-> up.objects,
     checkpoint |-> IF outcome \in {"uploaded", "skipped"}
                    THEN SetLastCheckpointDate(Client, s3_checkpoint, cursor, write_ok)
                    ELSE s3_checkpoint,
     uploaded |-> total_uploaded + (IF outcome = "uploaded" THEN 1 ELSE 0),
     skipped |-> total_skipped + (IF outcome = "skipped" THEN 1 ELSE 0),
     failed |-> total_failed + (IF outcome \in {"failed", "error"} THEN 1 ELSE 0),
     cursor |-> MinusOneDay(cursor),
     last |-> [date |-> cursor, outcome |-> outcome,
               sink |-> IF located THEN (IF up.ok THEN "True" ELSE "False") ELSE "none",
               checkpoint_call |-> outcome \in {"uploaded", "skipped"},
               checkpoint_ok |-> outcome \in {"uploaded", "skipped"} /\ write_ok],
     fetches |-> ix.fetches]

\* An iteration whose except branch leaves the cursor where it was.
SettleStuck(cursor, ix, located, up, outcome, write_ok) ==
    [cache |-> ix.cache,
     objects |-> up.objects,
     checkpoint |-> IF outcome = "uploaded"
                    THEN SetLastCheckpointDate(Client, s3_checkpoint, cursor, write_ok)
                    ELSE s3_checkpoint,
     uploaded |-> total_uploaded + (IF outcome = "uploaded" THEN 1 ELSE 0),
     skipped |-> total_skipped + (IF outcome = "skipped" THEN 1 ELSE 0),
     failed |-> total_failed + (IF outcome \in {"failed", "error"} THEN 1 ELSE 0),
     cursor |-> IF outcome = "error" THEN cursor ELSE MinusOneDay(cursor),
     last |-> [date |-> cursor, outcome |-> outcome,
               sink |-> IF located THEN (IF up.ok THEN "True" ELSE "False") ELSE "none",
               checkpoint_call |-> outcome = "uploaded",
               checkpoint_ok |-> outcome = "uploaded" /\ write_ok],
     fetches |-> ix.fetches]

\* Settle with an exception path that neither moves the cursor nor counts
\* the date.
SettleIdle(cursor, ix, located, up, outcome, write_ok) ==
    [cache |-> ix.cache,
     objects |-> up.objects,
     checkpoint |-> IF outcome = "uploaded"
                    THEN SetLastCheckpointDate(Client, s3_checkpoint, cursor, write_ok)
                    ELSE s3_checkpoint,
     uploaded |-> total_uploaded + (IF outcome = "uploaded" THEN 1 ELSE 0),
     skipped |-> total_skipped + (IF outcome = "skipped" THEN 1 ELSE 0),
     failed |-> total_failed + (IF outcome = "failed" THEN 1 ELSE 0),
     cursor |-> IF outcome = "error" THEN cursor ELSE MinusOneDay(cursor),
     last |-> [date |-> cursor, outcome |-> outcome,
               sink |-> IF located THEN (IF up.ok THEN "True" ELSE "False") ELSE "none",
               checkpoint_call |-> outcome = "uploaded",
               checkpoint_ok |-> outcome = "uploaded" /\ write_ok],
     fetches |-> ix.fetches]

\* Settle with an exception path that counts the date both as skipped and
\* as failed.
SettleTwice(cursor, ix, located, up, outcome, write_ok) ==
    [cache |-> ix.cache,
     objects |-> up.objects,
     checkpoint |-> IF outcome = "uploaded"
                    THEN SetLastCheckpointDate(Client, s3_checkpoint, cursor, write_ok)
                    ELSE s3_checkpoint,
     uploaded |-> total_uploaded + (IF outcome = "uploaded" THEN 1 ELSE 0),
     skipped |-> total_skipped + (IF outcome \in {"skipped", "error"} THEN 1 ELSE 0),
     failed |-> total_failed + (IF outcome \in {"failed", "error"} THEN 1 ELSE 0),
     cursor |-> MinusOneDay(cursor),
     last |-> [date |-> cursor, outcome |-> outcome,
               sink |-> IF located THEN (IF up.ok THEN "True" ELSE "False") ELSE "none",
               checkpoint_call |-> outcome = "uploaded",
               checkpoint_ok |-> outcome = "uploaded" /\ write_ok],
     fetches |-> ix.fetches]

\* Settle with an exception path that moves the cursor and counts nothing.
SettleUncounted(cursor, ix, located, up, outcome, write_ok) ==
    [cache |-> ix.cache,
     objects |-> up.objects,
     checkpoint |-> IF outcome = "uploaded"
                    THEN SetLastCheckpointDate(Client, s3_checkpoint, cursor, write_ok)
                    ELSE s3_checkpoint,
     uploaded |-> total_uploaded + (IF outcome = "uploaded" THEN 1 ELSE 0),
     skipped |-> total_skipped + (IF outcome = "skipped" THEN 1 ELSE 0),
     failed |-> total_failed + (IF outcome = "failed" THEN 1 ELSE 0),
     cursor |-> MinusOneDay(cursor),
     last |-> [date |-> cursor, outcome |-> outcome,
               sink |-> IF located THEN (IF up.ok THEN "True" ELSE "False") ELSE "none",
               checkpoint_call |-> outcome = "uploaded",
               checkpoint_ok |-> outcome = "uploaded" /\ write_ok],
     fetches |-> ix.fetches]

\* What an iteration that ended as `outcome` leaves behind.
Settle(cursor, ix, located, up, outcome, write_ok) ==
    [cache |-> ix.cache,
     objects |-> up.objects,
     checkpoint |-> IF outcome = "uploaded"
                    THEN SetLastCheckpointDate(Client, s3_checkpoint, cursor, write_ok)
                    ELSE s3_checkpoint,
     uploaded |-> total_uploaded + (IF outcome = "uploaded" THEN 1 ELSE 0),
     skipped |-> total_skipped + (IF outcome = "skipped" THEN 1 ELSE 0),
     failed |-> total_failed + (IF outcome \in {"failed", "error"} THEN 1 ELSE 0),
     cursor |-> MinusOneDay(cursor),
     last |-> [date |-> cursor, outcome |-> outcome,
               sink |-> IF located THEN (IF up.ok THEN "True" ELSE "False") ELSE "none",
               checkpoint_call |-> outcome = "uploaded",
               checkpoint_ok |-> outcome = "uploaded" /\ write_ok],
     fetches |-> ix.fetches]

\* if pdf_url: success = self.upload_pdf_to_s3(...)
Sink(cursor, ix, env) ==
    IF Located(ix, cursor)
    THEN UploadPdfToS3(Client, s3_objects, ix.index[Strftime(cursor)],
                       cursor[1], cursor[2], cursor[3], env)
    ELSE NoUpload(s3_objects)

\* The rest of one iteration, for the date `cursor`, once the index call
\* yielded ix and the sink call (if made) yielded up: counters, checkpoint,
\* cursor. write_ok is whether the checkpoint put_object works.
LoopBody(cursor, ix, up, write_ok) ==
    Only({Settle(cursor, ix, Located(ix, cursor), up, outcome, write_ok) :
          outcome \in {Outcome(ix, Located(ix, cursor), up)}})

Bump(counts, key, n) ==
    IF n = 0 THEN counts
    ELSE DictSet(counts, key, (IF key \in DOMAIN counts THEN counts[key] ELSE 0) + n)

\* What the transport can do over the attempts of one get_page_content
\* call: the outcomes after the first one that is no error are never
\* consumed, and stand as "error".
Transports(max_retries) ==
    {outs \in [1..max_retries -> TransportOutcomes] :
        \A i \in 1..max_retries, j \in 1..max_retries :
            (i < j /\ outs[i] # "error") => outs[j] = "error"}

DefaultTransports == Transports(DefaultMaxRetries)

\* No fetch is made: the transport is not used.
NoTransport == [i \in 1..DefaultMaxRetries |-> "error"]

MonthPagesOf == [ym \in Months |-> MonthPages(ym[1], ym[2])]

\* What the listing fetch of a month can meet: every transport, and every
\* page the site may hold.
IndexCalls(year, month) ==
    IF CacheKey(year, month) \in DOMAIN month_cache
    THEN {ScrapePdfMonthIndex(month_cache, year, month, NoTransport, NoneHtml)}
    ELSE {ScrapePdfMonthIndex(month_cache, year, month, outs, NoneHtml) :
             outs \in {t \in DefaultTransports : \A i \in 1..DefaultMaxRetries : t[i] # "page"}}
         \cup
         {ScrapePdfMonthIndex(month_cache, year, month, outs, page) :
             outs \in {t \in DefaultTransports : \E i \in 1..DefaultMaxRetries : t[i] = "page"},
             page \in MonthPagesOf[<<year, month>>]}

PdfBody ==
    /\ script = "pdf" /\ pc = "body"
    /\ \E ix \in IndexCalls(current_date[1], current_date[2]) :
       \E up \in {Sink(current_date, ix, env) : env \in SinkEnvs} :
       \E write_ok \in IF up.ok THEN BOOLEAN ELSE {TRUE} :
       \E b \in {LoopBody(current_date, ix, up, write_ok)} :
             /\ month_cache' = b.cache
             /\ s3_objects' = b.objects
             /\ s3_checkpoint' = b.checkpoint
             /\ total_uploaded' = b.uploaded
             /\ total_skipped' = b.skipped
             /\ total_failed' = b.failed
             /\ current_date' = b.cursor
             /\ last' = b.last
             /\ last_success' = IF b.last.sink = "True" THEN current_date ELSE last_success
             /\ write_failed' = (write_failed \/ (b.last.checkpoint_call /\ ~b.last.checkpoint_ok))
             /\ fetches' = Bump(fetches, CacheKey(current_date[1], current_date[2]), b.fetches)
             /\ overwrote' = /\ Located(ix, current_date)
                             /\ Overwrites(s3_objects,
                                           PdfKey(ix.index[Strftime(current_date)],
                                                  current_date[1], current_date[2], current_date[3]),
                                           up)
    /\ pc' = "loop"
    /\ UNCHANGED <<script, end_date, max_days_per_run, started, total_articles, total_days, call>>

\* ---------------------------------------------------- scraper.py __main__

\* START_DATE of the article script: sys.argv[1] when it parses, else
\* datetime(2007, 6, 2).
ArticlesStartDate(argv) ==
    IF Len(argv) >= 1 /\ Strptime(argv[1]) # NoDate THEN Strptime(argv[1]) ELSE EarliestDate

\* END_DATE of the article script: sys.argv[2] when it parses, else
\* datetime.now().
ArticlesEndDate(argv) ==
    IF Len(argv) >= 2 /\ Strptime(argv[2]) # NoDate THEN Strptime(argv[2]) ELSE Today

ArticlesMain ==
    /\ script = "articles" /\ pc = "main"
    /\ \E m \in {<<ArticlesStartDate(argv), ArticlesEndDate(argv)>> : argv \in Argvs} :
         /\ current_date' = m[1]
         /\ end_date' = m[2]
    /\ total_articles' = 0 /\ total_days' = 0
    /\ last' = NoLast /\ overwrote' = FALSE
    /\ pc' = "loop"
    /\ UNCHANGED <<script, s3_objects, s3_checkpoint, month_cache, max_days_per_run,
                   total_uploaded, total_skipped, total_failed, started, last_success,
                   write_failed, fetches, call>>

\* ------------------------------------- AljaridaScraper.scrape_and_upload

\* while current_date <= end_date
ArticlesWhileTest(cursor, boundary) == DateLE(cursor, boundary)

\* The top of one iteration: leave the loop and print the tallies, or go on
\* to process current_date.
ArticlesLoopTest ==
    /\ script = "articles" /\ pc = "loop"
    /\ pc' = IF ArticlesWhileTest(current_date, end_date) THEN "body" ELSE "halted"
    /\ UNCHANGED <<script, s3_objects, s3_checkpoint, month_cache,
                   current_date, end_date, max_days_per_run,
                   total_uploaded, total_skipped, total_failed, started, last_success,
                   write_failed, fetches, last, overwrote, total_articles, total_days, call>>

\* The texts of the pages the site serves in the behaviours.
SectionText == <<115>>
TitleText == <<116>>
BodyText == <<98>>
PagerTwo == <<50>>
PagerNext == <<62>>
\* a body with a control character in it
ControlText == <<98, 1, 98>>

\* A transport that works at once, and one that never works.
Works == [i \in 1..DefaultMaxRetries |-> IF i = 1 THEN "page" ELSE "error"]

HeaderRow == Row(2, <<>>, FALSE, <<>>, 0)

\* The days the site serves to the article crawl: a day whose archive page
\* cannot be fetched, a day without the archive widget, a day of one page
\* and one article, a day of two pages with one article each, and a day
\* whose article holds a control character.
ArticleDays ==
    LET body(text) == Fetch(Works, ArticlePage(TRUE, <<Node(text, FALSE)>>))
        one(url) == <<HeaderRow, Row(2, SectionText, TRUE, TitleText, url)>>
    IN  {DaySite(<<Unreachable>>, <<>>),
         DaySite(<<Fetch(Works, ArchivePage(FALSE, <<>>, FALSE, FALSE, <<>>))>>, <<>>),
         DaySite(<<Fetch(Works, ArchivePage(FALSE, <<>>, TRUE, TRUE, one(1)))>>,
                 <<body(BodyText)>>),
         DaySite(<<Fetch(Works, ArchivePage(TRUE, <<PagerItem(TRUE, PagerTwo),
                                                     PagerItem(TRUE, PagerNext)>>,
                                            TRUE, TRUE, one(1))),
                   Fetch(Works, ArchivePage(TRUE, <<>>, TRUE, TRUE, one(2)))>>,
                 <<body(BodyText), body(BodyText)>>),
         DaySite(<<Fetch(Works, ArchivePage(FALSE, <<>>, TRUE, TRUE, one(1)))>>,
                 <<body(ControlText)>>)}

\* What scrape_day can return in the behaviours.
ArticleDayData == {ScrapeDay(site).articles_data : site \in ArticleDays}

\* One iteration of the loop for the date `cursor`, once scrape_day
\* returned articles_data; put_ok is whether put_object works. The except
\* branch is taken when save_to_s3 raises.
ArticlesLoopBody(cursor, articles_data, put_ok) ==
    IF articles_data = <<>>
    THEN [objects |-> s3_objects, articles |-> total_articles, days |-> total_days,
          cursor |-> PlusOneDay(cursor), put |-> FALSE,
          last |-> [date |-> cursor, outcome |-> "empty", sink |-> "none",
                    checkpoint_call |-> FALSE, checkpoint_ok |-> FALSE]]
    ELSE Only({
           IF sv.raised
           THEN [objects |-> sv.objects, articles |-> total_articles, days |-> total_days,
                 cursor |-> PlusOneDay(cursor), put |-> sv.put,
                 last |-> [date |-> cursor, outcome |-> "error", sink |-> "raised",
                           checkpoint_call |-> FALSE, checkpoint_ok |-> FALSE]]
           ELSE IF sv.ok
           THEN [objects |-> sv.objects,
                 articles |-> total_articles + Len(articles_data),
                 days |-> total_days + 1,
                 cursor |-> PlusOneDay(cursor), put |-> sv.put,
                 last |-> [date |-> cursor, outcome |-> "saved", sink |-> "True",
                           checkpoint_call |-> FALSE, checkpoint_ok |-> FALSE]]
           ELSE [objects |-> sv.objects, articles |-> total_articles, days |-> total_days,
                 cursor |-> PlusOneDay(cursor), put |-> sv.put,
                 last |-> [date |-> cursor, outcome |-> "unsaved", sink |-> "False",
                           checkpoint_call |-> FALSE, checkpoint_ok |-> FALSE]] :
           sv \in {SaveToS3(Client, s3_objects, articles_data,
                            cursor[1], cursor[2], cursor[3], put_ok)}})

ArticlesBody ==
    /\ script = "articles" /\ pc = "body"
    /\ \E articles_data \in ArticleDayData :
       \E put_ok \in IF articles_data = <<>> \/ ToExcelRaises(articles_data)
                     THEN {TRUE} ELSE BOOLEAN :
       \E b \in {ArticlesLoopBody(current_date, articles_data, put_ok)} :
             /\ s3_objects' = b.objects
             /\ total_articles' = b.articles
             /\ total_days' = b.days
             /\ current_date' = b.cursor
             /\ last' = b.last
             /\ overwrote' = Overwrites(s3_objects,
                                        SheetKey(current_date[1], current_date[2], current_date[3]),
                                        b)
    /\ pc' = "loop"
    /\ UNCHANGED <<script, s3_checkpoint, month_cache, end_date, max_days_per_run,
                   total_uploaded, total_skipped, total_failed, started, last_success,
                   write_failed, fetches, call>>

\* The script is executed again, against the same bucket: a new process
\* with a new scraper object, whose fields are as after construction.
NextRun ==
    /\ script \in {"pdf", "articles"}
    /\ pc = "halted"
    /\ pc' = "main"
    /\ month_cache' = <<>>
    /\ current_date' = NoDate /\ end_date' = NoDate /\ max_days_per_run' = 0
    /\ total_uploaded' = 0 /\ total_skipped' = 0 /\ total_failed' = 0
    /\ started' = NoStart /\ last_success' = NoDate /\ write_failed' = FALSE
    /\ fetches' = <<>> /\ last' = NoLast /\ overwrote' = FALSE
    /\ total_articles' = 0 /\ total_days' = 0
    /\ UNCHANGED <<script, s3_objects, s3_checkpoint, call>>

Next ==
    \/ PdfMain
    \/ PdfLoopTest
    \/ PdfBody
    \/ ArticlesMain
    \/ ArticlesLoopTest
    \/ ArticlesBody
    \/ NextRun

Spec == Init /\ [][Next]_vars

\* The executions of Spec in which a started loop keeps running: the
\* interpreter goes on to the next statement, and every call an iteration
\* makes returns (the fetches carry timeouts, the retries are bounded).
\* Whether a script is started, or started again, is left open.
Running ==
    /\ WF_vars(PdfLoopTest) /\ WF_vars(PdfBody)
    /\ WF_vars(ArticlesLoopTest) /\ WF_vars(ArticlesBody)

\* One run of a script, from an empty bucket.
OneRun ==
    \/ PdfMain
    \/ PdfLoopTest
    \/ PdfBody
    \/ ArticlesMain
    \/ ArticlesLoopTest
    \/ ArticlesBody

SpecRunning == Init /\ [][OneRun]_vars /\ Running

\* ------------------------------------------- the scheduled, resumed crawl

\* The script started as the schedule starts it: USE_CHECKPOINT=1, no
\* argument, MAX_DAYS_PER_RUN >= 1, and a store that answers the read of
\* the checkpoint.
ResumedMain ==
    /\ PdfMain
    /\ started'.resumable
    /\ started'.checkpoint_date = GetLastCheckpointDate(Client, s3_checkpoint, TRUE)
    /\ max_days_per_run' >= 1

\* The top of an iteration of a run that stays within max_runtime_minutes.
InTimeLoopTest ==
    /\ PdfLoopTest
    /\ pc' = "halted" =>
          \/ ~WhileTest(current_date, end_date)
          \/ BudgetBreak(total_uploaded, total_skipped, total_failed,
                         max_days_per_run, FALSE)

\* An iteration against a store that accepts the write of the checkpoint.
AcceptedBody ==
    /\ PdfBody
    /\ ~write_failed'

InitResumed == script = "pdf" /\ Constructed

NextResumed ==
    \/ ResumedMain
    \/ InTimeLoopTest
    \/ AcceptedBody
    \/ NextRun

\* Resumed runs without end: each run runs to its end, and is followed by
\* another.
SpecResumed == InitResumed /\ [][NextResumed]_vars /\ WF_vars(NextResumed)

\* ------------------------------------------ direct calls of get_page_content

\* What the site may hold for the URL of a direct call.
FetchPages == {ArticlePage(TRUE, <<Node(BodyText, FALSE)>>),
               ArticlePage(FALSE, <<>>)}

\* get_page_content(url, max_retries) is called with some max_retries, the
\* transport doing outs over the attempts.
FetchCall ==
    /\ script = "fetch"
    /\ \E max_retries \in 0..MaxRetries, outs \in [1..MaxRetries -> TransportOutcomes],
          page \in FetchPages :
         call' = [kind |-> "fetch", max_retries |-> max_retries, outs |-> outs,
                  page |-> page, result |-> GetPageContent(outs, page, max_retries)]
    /\ UNCHANGED <<script, pc, s3_objects, s3_checkpoint, month_cache,
                   current_date, end_date, max_days_per_run,
                   total_uploaded, total_skipped, total_failed, started, last_success,
                   write_failed, fetches, last, overwrote, total_articles, total_days>>

InitFetch == script = "fetch" /\ Constructed

NextFetch == FetchCall

SpecFetch == InitFetch /\ [][NextFetch]_vars

\* ------------------------------------------------ direct calls of the sinks

\* The bucket of a direct call: empty, or holding `content` under `key`.
Bucket(held, key, content) == IF held THEN DictSet(<<>>, key, content) ELSE <<>>

\* upload_pdf_to_s3 is called for the edition of some date, on a bucket that
\* holds the edition or not, with or without a client.
PdfSinkCall ==
    /\ script = "sink"
    /\ \E client \in BOOLEAN, d \in Dates, kind \in {"file", "viewer"},
          held \in BOOLEAN, env \in SinkEnvs :
       \E pdf_url \in {UrlJoin(Href(kind, d))} :
       \E key \in {PdfKey(pdf_url, d[1], d[2], d[3])} :
         call' = [kind |-> "pdf", client |-> client, date |-> d, key |-> key,
                  held |-> held, env |-> env,
                  result |-> UploadPdfToS3(client, Bucket(held, key, pdf_url),
                                           pdf_url, d[1], d[2], d[3], env)]
    /\ UNCHANGED <<script, pc, s3_objects, s3_checkpoint, month_cache,
                   current_date, end_date, max_days_per_run,
                   total_uploaded, total_skipped, total_failed, started, last_success,
                   write_failed, fetches, last, overwrote, total_articles, total_days>>

\* save_to_s3 is called for the articles of some date, on a bucket that
\* holds the date's sheet or not, with or without a client.
SheetSinkCall ==
    /\ script = "sink"
    /\ \E client \in BOOLEAN, d \in Dates, articles_data \in ArticleDayData \ {<<>>},
          held \in BOOLEAN, put_ok \in BOOLEAN :
       \E key \in {SheetKey(d[1], d[2], d[3])} :
         call' = [kind |-> "sheet", client |-> client, date |-> d, key |-> key,
                  held |-> held, env |-> [head |-> TRUE, get |-> TRUE, put |-> put_ok],
                  result |-> SaveToS3(client, Bucket(held, key, ToExcel(articles_data)),
                                      articles_data, d[1], d[2], d[3], put_ok)]
    /\ UNCHANGED <<script, pc, s3_objects, s3_checkpoint, month_cache,
                   current_date, end_date, max_days_per_run,
                   total_uploaded, total_skipped, total_failed, started, last_success,
                   write_failed, fetches, last, overwrote, total_articles, total_days>>

InitSink == script = "sink" /\ Constructed

NextSink == PdfSinkCall \/ SheetSinkCall

SpecSink == InitSink /\ [][NextSink]_vars

\* ------------------------------------------------ direct calls of scrape_day

\* The archive page `page_num` of a day, one article per page, whose
\* pagination shows n as the last page; there is no pagination when n <= 1.
\* The article of page p has the URL p.
ListingPage(page_num, n, widget) ==
    ArchivePage(n > 1,
                IF n > 1
                THEN <<PagerItem(TRUE, <<Digit(n)>>), PagerItem(TRUE, PagerNext)>>
                ELSE <<>>,
                widget, widget,
                IF widget
                THEN <<HeaderRow, Row(2, SectionText, TRUE, TitleText, page_num)>>
                ELSE <<>>)

\* What the fetch of an archive page can meet: "down" (every attempt
\* raises), "bare" (a page without the archive widget), "rows".
PageKinds == {"down", "bare", "rows"}

\* What the pagination of the pages after the first can show as the last
\* page: nothing (0), or a number that may differ from the first page's.
LaterCounts == {0} \cup 2..(MaxPages + 1)

\* The day the site serves when its listing has n pages of the kinds
\* `pages`, the first page showing n as the last page and the others
\* `later`, and the articles whose URLs are in `lost` cannot be fetched.
DayOf(n, later, pages, lost) ==
    DaySite([p \in 1..n |->
                IF pages[p] = "down" THEN Unreachable
                ELSE Fetch(Works, ListingPage(p, IF p = 1 THEN n ELSE later,
                                              pages[p] = "rows"))],
            [u \in 1..n |->
                IF u \in lost THEN Unreachable
                ELSE Fetch(Works, ArticlePage(TRUE, <<Node(BodyText, FALSE)>>))])

\* scrape_day(year, month, day) is called for a day of some listing. The
\* function keeps nothing from one call to the next, so one call is taken
\* per behaviour.
DayCall ==
    /\ script = "day" /\ call = NoCall
    /\ \E n \in 1..MaxPages, later \in LaterCounts :
       \E pages \in [1..n -> PageKinds], lost \in SUBSET (1..n) :
         call' = [kind |-> "day", n |-> n, later |-> later, pages |-> pages, lost |-> lost,
                  result |-> ScrapeDay(DayOf(n, later, pages, lost))]
    /\ UNCHANGED <<script, pc, s3_objects, s3_checkpoint, month_cache,
                   current_date, end_date, max_days_per_run,
                   total_uploaded, total_skipped, total_failed, started, last_success,
                   write_failed, fetches, last, overwrote, total_articles, total_days>>

InitDay == script = "day" /\ Constructed

NextDay == DayCall

SpecDay == InitDay /\ [][NextDay]_vars

\* ------------------------------------------------------------- properties

\* C1: in a run of the PDF crawl started with the date budget M >= 0, the
\* number of dates that reached a terminal outcome (uploaded + skipped +
\* failed) never exceeds M.
Budget ==
    (script = "pdf" /\ pc # "main") =>
        total_uploaded + total_skipped + total_failed <= max_days_per_run

\* A run that stopped on its budget with dates of the range left.
BudgetWitness ==
    /\ script = "pdf" /\ pc = "halted"
    /\ max_days_per_run = MaxDays
    /\ total_uploaded + total_skipped + total_failed = max_days_per_run
    /\ WhileTest(current_date, end_date)

\* C2: the checkpoint is written only in an iteration whose sink call
\* returned True, and with that iteration's date: set_last_checkpoint_date is
\* not called for a skipped or failed date, and the checkpoint object never
\* changes in any other step.
CheckpointOnlyOnSuccess ==
    /\ [](last.checkpoint_call => last.sink = "True")
    /\ [][s3_checkpoint' # s3_checkpoint =>
            /\ script = "pdf" /\ pc = "body"
            /\ last'.sink = "True" /\ last'.date = current_date
            /\ s3_checkpoint' = Strftime(current_date)]_vars

\* An iteration whose sink call returned True and that stored its date.
CheckpointOnlyOnSuccessWitness ==
    /\ script = "pdf" /\ pc = "loop"
    /\ last.sink = "True" /\ last.checkpoint_ok
    /\ s3_checkpoint = Strftime(last.date)

\* C3: a run with resumption on and no start argument starts at the day
\* before the stored checkpoint when the checkpoint is read, and at the
\* configured start (datetime.now()) when no checkpoint can be read.
ResumeFromCheckpoint ==
    (script = "pdf" /\ pc # "main" /\ started.resumable /\ last = NoLast) =>
        IF started.checkpoint_date # NoDate
        THEN /\ started.checkpoint_date = Strptime(s3_checkpoint)
             /\ current_date = MinusOneDay(Strptime(s3_checkpoint))
        ELSE current_date = Today

\* A resumed run about to process its first date, the day before the
\* checkpoint.
ResumeFromCheckpointWitness ==
    /\ script = "pdf" /\ pc = "body"
    /\ started.resumable /\ started.checkpoint_date # NoDate
    /\ last = NoLast
    /\ s3_checkpoint = Strftime(PlusOneDay(current_date))

\* C4: in one run, get_page_content is called at most once for the listing
\* of each year-month.
OneFetchPerPeriod ==
    script = "pdf" => \A key \in DOMAIN fetches : fetches[key] <= 1

\* C5: a date whose document the bucket already holds is completed without
\* any write to the bucket.
NoWriteForStoredDate == ~overwrote

\* C6: a sink called for a date whose document the bucket holds finds it by
\* its existence check, reports success, and issues neither a download nor a
\* put.
ExistenceCheckFirst ==
    (call.kind \in {"pdf", "sheet"} /\ call.client /\ call.held) =>
        /\ call.result.head = "found"
        /\ call.result.ok
        /\ ~call.result.downloaded /\ ~call.result.put

\* C7: get_page_content(url, N) makes at most N attempts; it returns the
\* content of the first attempt that does not fail, and None when all N fail.
FetchRetry ==
    call.kind = "fetch" =>
        LET N == call.max_retries
            good == {i \in 1..N : call.outs[i] # "error"}
        IN  /\ call.result.attempts <= N
            /\ IF good = {}
               THEN call.result.html = NoneHtml /\ call.result.attempts = N
               ELSE LET k == CHOOSE i \in good : \A j \in good : i <= j
                    IN  /\ call.result.html = ResponseText(call.outs[k], call.page)
                        /\ call.result.attempts = k

\* A call whose first attempt failed and whose second returned the page.
FetchRetryWitness ==
    /\ call.kind = "fetch" /\ call.max_retries >= 2
    /\ call.outs[1] = "error" /\ call.outs[2] = "page"
    /\ call.result.html = call.page /\ call.result.attempts = 2

ErrorsAbsorbed ==
    [][(pc = "body" /\ last'.outcome = "error") =>
          /\ pc' = "loop"
          /\ current_date' = IF script = "pdf" THEN MinusOneDay(current_date)
                                              ELSE PlusOneDay(current_date)
          /\ s3_checkpoint' = s3_checkpoint
          /\ s3_objects' = s3_objects
          /\ total_uploaded' = total_uploaded /\ total_skipped' = total_skipped
          /\ total_failed' = total_failed + (IF script = "pdf" THEN 1 ELSE 0)
          /\ total_days' = total_days /\ total_articles' = total_articles]_vars

\* A run of the article crawl that reached its tallies after an iteration
\* that raised.
ErrorsAbsorbedWitness ==
    /\ script = "articles" /\ pc = "halted"
    /\ last.outcome = "error" /\ last.date = end_date

\* C10: a transport error met inside upload_pdf_to_s3 (by head_object, by
\* the download or by upload_fileobj) makes the call return False.
TransportErrorFails ==
    (/\ call.kind = "pdf" /\ call.client
     /\ \/ call.result.head = "error"
        \/ call.result.downloaded /\ ~call.env.get
        \/ call.result.put /\ ~call.env.put) =>
        ~call.result.ok

\* C11: when the fetch of page k >= 2 of a listing fails after retries,
\* scrape_day requests no page after k and returns records of the pages
\* before k only.
PaginationTruncates ==
    call.kind = "day" =>
        \A k \in 2..call.n :
            (call.pages[1] # "down" /\ call.pages[k] = "down") =>
                /\ \A i \in 1..Len(call.result.pages) : call.result.pages[i] <= k
                /\ \A i \in 1..Len(call.result.urls) : call.result.urls[i] < k

\* C12: the key either sink stores under is aljarida/year=Y/month=MM/day=DD/
\* followed by the artifact, month and day in two digits; the date is read
\* back from the key, so two dates never share a key; and the date
\* (2024, 3, 7) gives year=2024/month=03/day=07.
PartitionKey ==
    /\ call.kind \in {"pdf", "sheet"} =>
         \A key \in {call.key} \cup DOMAIN call.result.objects :
            /\ key.collection = "aljarida"
            /\ Len(key.year) = 4 /\ Len(key.month) = 2 /\ Len(key.day) = 2
            /\ <<IntOf(key.year), IntOf(key.month), IntOf(key.day)>> = call.date
            /\ IF call.kind = "sheet"
               THEN key.artifact = <<"data.xlsx">>
               ELSE /\ Len(key.artifact) = 2
                    /\ key.artifact[1] = "magazinepdf"
                    /\ EndsWithPdf(key.artifact[2])
    /\ \A key \in {SheetKey(2024, 3, 7),
                   PdfKey(UrlJoin(Href("file", <<2024, 3, 7>>)), 2024, 3, 7),
                   PdfKey(UrlJoin(Href("viewer", <<2024, 3, 7>>)), 2024, 3, 7)} :
          /\ key.year = <<50, 48, 50, 52>>
          /\ key.month = <<48, 51>>
          /\ key.day = <<48, 55>>

\* A call that stored a document for a day of one digit.
PartitionKeyWitness ==
    /\ call.kind \in {"pdf", "sheet"}
    /\ ~call.held /\ call.result.ok
    /\ call.date[3] < 10
    /\ DOMAIN call.result.objects = {call.key}

FailedDateStaysEligible ==
    [][(/\ script = "pdf" /\ pc = "body" /\ started.resumable
        /\ last.outcome \in {"failed", "error"}
        /\ DateGE(ResumePosition(s3_checkpoint), last.date)) =>
          DateGE(ResumePosition(s3_checkpoint'), last.date)]_vars

\* C15: a run of either crawl whose loop has started reaches its end, the
\* printing of the tallies, whatever the dates, the budget and the outcomes
\* of the iterations.
\* Every iteration, on its normal and on its exception path, moves the
\* cursor one calendar day towards the boundary.
Terminates ==
    /\ (pc \in {"loop", "body"}) ~> (pc = "halted")
    /\ [][pc = "body" =>
            current_date' = IF script = "pdf" THEN MinusOneDay(current_date)
                                              ELSE PlusOneDay(current_date)]_vars

\* A run that ended after an iteration that raised, its cursor past the
\* boundary.
TerminatesWitness ==
    /\ script = "pdf" /\ pc = "halted"
    /\ last.outcome = "error"
    /\ DateLT(current_date, end_date)

\* C16: under resumed runs without end, each with a budget of at least one
\* date, some run leaves its loop with the cursor past the boundary date.
ReachesBoundary == <>(pc = "halted" /\ DateLT(current_date, end_date))

\* C17: a write of the checkpoint over a stored checkpoint stores an earlier
\* date than the one it replaces, within a run and from run to run.
CheckpointMovesBackwards ==
    [][(s3_checkpoint # NoBlob /\ last'.checkpoint_call /\ last'.checkpoint_ok
        /\ last' # last) =>
            DateLT(Strptime(s3_checkpoint'), Strptime(s3_checkpoint))]_vars

\* C18: an iteration whose upload succeeded and whose checkpoint write the
\* store rejected counts the date as uploaded and not as failed, leaves the
\* stored checkpoint as it was, and hands over to the top of the loop with
\* the cursor on the next date.
CheckpointWriteFailureNonFatal ==
    [][(script = "pdf" /\ pc = "body"
        /\ last'.checkpoint_call /\ ~last'.checkpoint_ok) =>
            /\ last'.outcome = "uploaded"
            /\ last'.date = current_date
            /\ total_uploaded' = total_uploaded + 1
            /\ total_failed' = total_failed
            /\ total_skipped' = total_skipped
            /\ s3_checkpoint' = s3_checkpoint
            /\ current_date' = MinusOneDay(current_date)
            /\ pc' = "loop"]_vars

\* A run that holds a checkpoint, met a rejected write, and is processing
\* the date after it.
CheckpointWriteFailureNonFatalWitness ==
    /\ script = "pdf" /\ pc = "body"
    /\ last.checkpoint_call /\ ~last.checkpoint_ok
    /\ s3_checkpoint # NoBlob
    /\ current_date = MinusOneDay(last.date)

\* C19: when the fetch of a month's listing yields nothing after its
\* retries, or the listing has no widget, scrape_pdf_month_index caches the
\* empty index for the month and returns it without raising; a date whose
\* month is cached as empty is counted skipped; and an entry of the cache
\* is neither replaced nor removed by a later iteration of the run.
EmptyIndexCached ==
    /\ \A ym \in Months : \A outs \in DefaultTransports :
       \A page \in MonthPagesOf[ym] \cup {NoneHtml} :
       \A html \in {GetPageContent(outs, page, DefaultMaxRetries).html} :
       \A r \in {ScrapePdfMonthIndex(<<>>, ym[1], ym[2], outs, page)} :
          (Falsy(html) \/ ~html.widget) =>
              /\ r.cache = DictSet(<<>>, CacheKey(ym[1], ym[2]), EmptyIndex)
              /\ r.index = EmptyIndex
              /\ ~r.raised
    /\ [][(script = "pdf" /\ pc = "body") =>
            /\ \A k \in DOMAIN month_cache :
                  k \in DOMAIN month_cache' /\ month_cache'[k] = month_cache[k]
            /\ \A k \in {CacheKey(current_date[1], current_date[2])} :
                  (k \in DOMAIN month_cache' /\ month_cache'[k] = EmptyIndex) =>
                      /\ last'.outcome = "skipped"
                      /\ total_skipped' = total_skipped + 1
                      /\ total_failed' = total_failed]_vars

\* Two dates of a month skipped on one fetch of its listing, the month
\* cached as empty.
EmptyIndexCachedWitness ==
    /\ script = "pdf" /\ total_skipped = 2 /\ last.outcome = "skipped"
    /\ \E k \in {CacheKey(last.date[1], last.date[2])} :
          /\ k \in DOMAIN month_cache /\ month_cache[k] = EmptyIndex
          /\ k \in DOMAIN fetches /\ fetches[k] = 1

\* C20: a date is processed only when the check at the top of its iteration
\* found fewer than max_days_per_run dates settled and the runtime limit not
\* reached; a date that passed the check is settled as exactly one of
\* uploaded, skipped and failed, and control returns to the check.
BudgetCheckOnly ==
    /\ \A u \in 0..MaxDays, s \in 0..MaxDays, f \in 0..MaxDays, M \in 0..MaxDays :
          /\ BudgetBreak(u, s, f, M, TRUE)
          /\ BudgetBreak(u, s, f, M, FALSE) <=> (u + s + f >= M)
    /\ [][(script = "pdf" /\ pc = "loop" /\ pc' = "body") =>
            /\ total_uploaded + total_skipped + total_failed < max_days_per_run
            /\ UNCHANGED <<current_date, total_uploaded, total_skipped, total_failed>>]_vars
    /\ [][(script = "pdf" /\ pc = "body") =>
            /\ pc' = "loop"
            /\ last'.date = current_date
            /\ (total_uploaded' + total_skipped' + total_failed')
                  = (total_uploaded + total_skipped + total_failed) + 1
            /\ total_uploaded' >= total_uploaded
            /\ total_skipped' >= total_skipped
            /\ total_failed' >= total_failed]_vars
    /\ [][(script = "pdf" /\ pc' = "halted") => pc = "loop"]_vars

\* A run stopped by its budget at the check, the last date settled and the
\* cursor still within the range.
BudgetCheckOnlyWitness ==
    /\ script = "pdf" /\ pc = "halted"
    /\ total_uploaded + total_skipped + total_failed = max_days_per_run
    /\ max_days_per_run = MaxDays
    /\ last.outcome = "error"
    /\ DateGE(current_date, end_date)

\* C21: get_page_content(url, N) sleeps after every failed attempt that is
\* followed by another one, and only then: one sleep fewer than the
\* attempts it makes, N - 1 when all N fail; the first sleep is one second
\* and each later one twice the one before.
BackoffSchedule ==
    call.kind = "fetch" =>
        \E sleeps \in {call.result.sleeps} :
            /\ Len(sleeps) = IF call.result.attempts = 0 THEN 0
                             ELSE call.result.attempts - 1
            /\ ((\A i \in 1..call.max_retries : call.outs[i] = "error")
                    /\ call.max_retries >= 1) => Len(sleeps) = call.max_retries - 1
            /\ Len(sleeps) >= 1 => sleeps[1] = 1
            /\ \A i \in 1..(Len(sleeps) - 1) : sleeps[i + 1] = 2 * sleeps[i]

\* A call of four attempts that all failed: sleeps of 1, 2 and 4 seconds.
BackoffScheduleWitness ==
    /\ call.kind = "fetch" /\ call.max_retries = 4
    /\ \A i \in 1..4 : call.outs[i] = "error"
    /\ call.result.sleeps = <<1, 2, 4>>
    /\ call.result.html = NoneHtml

\* C22: when the first archive page of a day is fetched and has no archive
\* widget, scrape_day requests no other archive page and no article, and
\* returns no article.
NoWidgetEndsDay ==
    (call.kind = "day" /\ call.pages[1] = "bare") =>
        /\ call.result.pages = <<1>>
        /\ call.result.urls = <<>>
        /\ call.result.articles_data = <<>>

\* C23: scrape_day requests the archive pages 1, 2, ..., N in this order and
\* each once, N being the last page that the pagination of the first page
\* shows, whatever the pagination of a later page shows; when the first
\* page cannot be fetched it requests no other page.
PageCountFromFirstPage ==
    call.kind = "day" =>
        call.result.pages =
            IF call.pages[1] = "down" THEN <<1>> ELSE [i \in 1..call.n |-> i]

\* A listing of two pages whose second page shows a pagination of three.
PageCountFromFirstPageWitness ==
    /\ call.kind = "day" /\ call.n = 2 /\ call.later = 3
    /\ call.pages = <<"rows", "rows">>
    /\ call.result.pages = <<1, 2>>
    /\ call.result.urls = <<1, 2>>

\* C24: scrape_day requests the content of every article it gathered from
\* the archive pages, once and in the order of the listing, and returns one
\* record per gathered article in that order; the record of an article whose
\* content could not be fetched has an empty content.
BestEffortContent ==
    call.kind = "day" =>
        \E gathered \in {SelectSeq(call.result.pages,
                                   LAMBDA p : call.pages[p] = "rows")} :
            /\ call.result.urls = gathered
            /\ Len(call.result.articles_data) = Len(gathered)
            /\ \A i \in 1..Len(gathered) :
                  /\ call.result.articles_data[i].section = SectionText
                  /\ call.result.articles_data[i].title = TitleText
                  /\ call.result.articles_data[i].content =
                        IF gathered[i] \in call.lost THEN <<>> ELSE BodyText

\* Two articles gathered, the content of the first not to be had.
BestEffortContentWitness ==
    /\ call.kind = "day" /\ call.n = 2 /\ call.pages = <<"rows", "rows">>
    /\ call.lost = {1}
    /\ Len(call.result.articles_data) = 2
    /\ call.result.articles_data[1].content = <<>>
    /\ call.result.articles_data[2].content = BodyText

\* C25: at every point of a run of the PDF crawl the three counters add up
\* to the number of days the cursor is behind the start date, each of them
\* counting dates of its own kind: every date between the start date and
\* the cursor has been counted once.
SettledOnce ==
    (script = "pdf" /\ pc \in {"loop", "body", "halted"}) =>
        /\ current_date = DaysBefore(started.start_date,
                                     total_uploaded + total_skipped + total_failed)
        /\ last = NoLast <=> total_uploaded + total_skipped + total_failed = 0
        /\ last # NoLast =>
              /\ current_date = MinusOneDay(last.date)
              /\ last.outcome = "uploaded" => total_uploaded >= 1
              /\ last.outcome = "skipped" => total_skipped >= 1
              /\ last.outcome \in {"failed", "error"} => total_failed >= 1

\* A run two days behind its start date, one date uploaded and the other
\* counted failed after an exception.
SettledOnceWitness ==
    /\ script = "pdf" /\ pc = "halted"
    /\ total_uploaded = 1 /\ total_failed = 1 /\ total_skipped = 0
    /\ last.outcome = "error"
    /\ current_date = MinusOneDay(MinusOneDay(started.start_date))

====
